---- MODULE Spec2Model ----
(***************************************************************************)
(* Model of the experimental v2 Python clients of the inference server:    *)
(*   library/grpcclient.py  (binary transport, sync and async infer)       *)
(*   library/httpclient.py  (JSON/REST transport, sync infer)              *)
(* The state is the caller's tensor descriptors (InferInput, InferOutput   *)
(* of each transport), the calls in progress on each client and the        *)
(* exchanges issued on each transport.                                     *)
(***************************************************************************)
EXTENDS Integers, Sequences, FiniteSets, TLC

\* ---------------------------------------------------------------- bounds
\* number of descriptor operations the caller performs
MaxOps == 2
\* number of overlapping async_infer calls
MaxCalls == 2

Calls == 1..MaxCalls

\* ------------------------------------------------------- Python values
\* A Python object as seen by the `type(x) is ...` tests of the clients.
PyInt(n) == [type |-> "int", i |-> n, b |-> FALSE, s |-> ""]
PyBool(v) == [type |-> "bool", i |-> 0, b |-> v, s |-> ""]
PyStr(v) == [type |-> "str", i |-> 0, b |-> FALSE, s |-> v]
PyFloat(v) == [type |-> "float", i |-> 0, b |-> FALSE, s |-> v]
PyList(v) == [type |-> "list", i |-> 0, b |-> FALSE, s |-> v]
PyNone == [type |-> "NoneType", i |-> 0, b |-> FALSE, s |-> "None"]

\* keys and values the caller passes to set_parameter / parameters=
ParamKeys == {PyStr("k1"), PyStr("k2"), PyInt(7)}
ParamValues == {PyInt(5), PyBool(TRUE), PyStr("x"), PyFloat("1.5"),
                PyList("[1]"), PyNone}

\* the three kinds of value a parameter may have
SupportedTypes == {"int", "bool", "str"}
WellFormed(key, value) == key.type = "str" /\ value.type \in SupportedTypes

\* ---------------------------------------------------------- exceptions
NoExc == [type |-> "none", msg |-> "", status |-> "", debug |-> ""]

\* utils.raise_error(msg): raise InferenceServerException(msg=msg)
raise_error(msg) ==
    [type |-> "InferenceServerException", msg |-> msg,
     status |-> "None", debug |-> "None"]

\* str(grpc.StatusCode.X)
StatusCodeStr(code) ==
    CASE code = "UNAVAILABLE" -> "StatusCode.UNAVAILABLE"
      [] code = "INVALID_ARGUMENT" -> "StatusCode.INVALID_ARGUMENT"
      [] code = "INTERNAL" -> "StatusCode.INTERNAL"
      [] code = "CANCELLED" -> "StatusCode.CANCELLED"
      [] OTHER -> "StatusCode.UNKNOWN"

\* a failed RPC as the transport reports it (grpc.RpcError)
RpcErrors ==
    {[details |-> "connection refused", code |-> "UNAVAILABLE",
      debug_error_string |-> "dbg:14"],
     [details |-> "unknown model", code |-> "INVALID_ARGUMENT",
      debug_error_string |-> "dbg:3"]}

raise_error_grpc_swapped(rpc_error) ==
    [type |-> "InferenceServerException",
     msg |-> rpc_error.debug_error_string,
     status |-> StatusCodeStr(rpc_error.code),
     debug |-> rpc_error.details]

raise_error_grpc(rpc_error) ==
    [type |-> "InferenceServerException",
     msg |-> rpc_error.details,
     status |-> StatusCodeStr(rpc_error.code),
     debug |-> rpc_error.debug_error_string]

\* ------------------------------------------------------------- maps
\* a Python dict / protobuf map with string keys
EmptyMap == <<>>
Put(m, k, v) == [x \in (DOMAIN m) \cup {k} |-> IF x = k THEN v ELSE m[x]]

\* -------------------------------------------------- numpy arrays
\* an ndarray: its dtype, its shape, the order of its backing buffer ("C":
\* row-major, "F": column-major) and the buffer's elements in memory order
NdArray(dtype, shape, order, mem) ==
    [dtype |-> dtype, shape |-> shape, order |-> order, mem |-> mem]

\* the arrays the caller passes to set_data_from_numpy
NumpyArrays ==
    {NdArray("int32", <<1, 2>>, "C", <<1, 2>>),
     NdArray("int32", <<2>>, "C", <<258, -1>>)}

\* what the caller passes to set_data_from_numpy: an array, or a list
Payloads == NumpyArrays \cup {PyList("[1, 2]")}

\* isinstance(input_tensor, (np.ndarray,))
isinstance_ndarray(input_tensor) == "dtype" \in DOMAIN input_tensor

\* the exception set_data_from_numpy raises (same test on both transports)
set_data_from_numpy_exc(input_tensor) ==
    IF ~isinstance_ndarray(input_tensor)
    THEN raise_error("input_tensor must be a numpy array")
    ELSE NoExc

\* values the caller assigns to the shape and datatype properties
ShapeValues == {<<4>>, <<2, 3>>}
DatatypeValues == {"FP32"}

\* utils.np_to_triton_dtype
np_to_triton_dtype(dtype) ==
    CASE dtype = "int32" -> "INT32"
      [] dtype = "int16" -> "INT16"
      [] dtype = "uint8" -> "UINT8"
      [] dtype = "object" -> "BYTES"
      [] OTHER -> "None"

\* utils.triton_to_np_dtype
triton_to_np_dtype(datatype) ==
    CASE datatype = "INT32" -> "int32"
      [] datatype = "INT16" -> "int16"
      [] datatype = "UINT8" -> "uint8"
      [] datatype = "BYTES" -> "object"
      [] OTHER -> "None"

\* numpy.dtype.itemsize of the fixed-width dtypes
itemsize(dtype) ==
    CASE dtype = "int32" -> 4
      [] dtype = "int16" -> 2
      [] dtype = "uint8" -> 1

RECURSIVE Product(_)
\* ndarray.size: the product of the shape
Product(shape) ==
    IF shape = <<>> THEN 1 ELSE Head(shape) * Product(Tail(shape))

\* ndarray.flatten(): the elements in row-major order, whatever the order of
\* the backing buffer (arrays of one or two dimensions)
flatten(arr) ==
    IF arr.order = "C" \/ Len(arr.shape) < 2 THEN arr.mem
    ELSE LET r == arr.shape[1]
             c == arr.shape[2]
         IN  [i \in 1..(r * c) |-> arr.mem[((i - 1) % c) * r + ((i - 1) \div c) + 1]]

\* little-endian bytes of a 32-bit two's complement integer
Int32Bytes(v) ==
    <<v % 256, (v \div 256) % 256, (v \div 65536) % 256,
      (v \div 16777216) % 256>>

\* the bytes of one element: two's complement, least significant byte first
ScalarBytes(dtype, v) == SubSeq(Int32Bytes(v), 1, itemsize(dtype))

RECURSIVE ConcatBytes(_, _)
ConcatBytes(dtype, flat) ==
    IF flat = <<>> THEN <<>>
    ELSE ScalarBytes(dtype, Head(flat)) \o ConcatBytes(dtype, Tail(flat))

\* tobytes() that copies the backing buffer as it lies in memory
tobytes_memory_order(arr) == ConcatBytes(arr.dtype, arr.mem)

\* numpy.ndarray.tobytes() (order='C') of a fixed-width array
tobytes(arr) == ConcatBytes(arr.dtype, flatten(arr))

RECURSIVE SerializeRuns(_)
\* each byte-string as its 4-byte little-endian length, then its bytes
SerializeRuns(strs) ==
    IF strs = <<>> THEN <<>>
    ELSE Int32Bytes(Len(Head(strs))) \o Head(strs) \o SerializeRuns(Tail(strs))

\* utils.serialize_byte_tensor: a flat uint8 array holding the elements of
\* the object array, in row-major order, each behind its length
serialize_byte_tensor(input_tensor) ==
    LET bytes == SerializeRuns(flatten(input_tensor))
    IN  NdArray("uint8", <<Len(bytes)>>, "C", bytes)

\* ------------------------------------- binary transport: descriptors
\* InferParameter message: a oneof over int64_param, bool_param, string_param
EmptyParam ==
    [choice |-> "", int64_param |-> 0, bool_param |-> FALSE,
     string_param |-> ""]
Int64Param(n) == [EmptyParam EXCEPT !.choice = "int64_param", !.int64_param = n]
BoolParam(v) == [EmptyParam EXCEPT !.choice = "bool_param", !.bool_param = v]
StringParam(v) == [EmptyParam EXCEPT !.choice = "string_param", !.string_param = v]

\* grpcclient.InferInput.__init__: an InferInputTensor message with its name
GrpcInferInput(name) ==
    [name |-> name, datatype |-> "", shape |-> <<>>, parameters |-> EmptyMap,
     raw_contents |-> <<>>]

\* grpcclient.InferOutput.__init__: an InferRequestedOutputTensor message
GrpcInferOutput(name) == [name |-> name, parameters |-> EmptyMap]

\* set_parameter of grpcclient.InferInput and grpcclient.InferOutput (same
\* body): the result is the message after the call and the exception raised.
\* `param = msg.parameters[key]` inserts a default entry when key is absent.
grpc_set_parameter(msg, key, value) ==
    IF key.type # "str"
    THEN [msg |-> msg,
          exc |-> raise_error("only string data type for key is supported in parameters")]
    ELSE LET k == key.s
             touched == IF k \in DOMAIN msg.parameters THEN msg.parameters
                        ELSE Put(msg.parameters, k, EmptyParam)
         IN  IF value.type = "int"
             THEN [msg |-> [msg EXCEPT !.parameters = Put(touched, k, Int64Param(value.i))],
                   exc |-> NoExc]
             ELSE IF value.type = "bool"
             THEN [msg |-> [msg EXCEPT !.parameters = Put(touched, k, BoolParam(value.b))],
                   exc |-> NoExc]
             ELSE IF value.type = "str"
             THEN [msg |-> [msg EXCEPT !.parameters = Put(touched, k, StringParam(value.s))],
                   exc |-> NoExc]
             ELSE [msg |-> [msg EXCEPT !.parameters = touched],
                   exc |-> raise_error("unsupported value type for the parameter")]

\* grpcclient.InferInput.set_data_from_numpy: the message after the call
grpc_set_data_from_numpy(msg, input_tensor) ==
    IF ~isinstance_ndarray(input_tensor) THEN msg ELSE
    LET datatype == np_to_triton_dtype(input_tensor.dtype)
    IN  [msg EXCEPT !.datatype = datatype,
                    !.shape = input_tensor.shape,
                    !.raw_contents =
                        IF datatype = "BYTES"
                        THEN tobytes(serialize_byte_tensor(input_tensor))
                        ELSE tobytes(input_tensor)]

\* ------------------------------------- JSON transport: descriptors
\* httpclient.InferInput.__init__: _input = {'name': name}, _parameters = {}.
\* keys is the key set of the _input dict; once 'parameters' is among the keys
\* _input['parameters'] is the _parameters dict itself (same object).
HttpInferInput(name) ==
    [keys |-> {"name"}, name |-> name, datatype |-> "", shape |-> <<>>,
     data |-> <<>>, parameters |-> EmptyMap]

\* httpclient.InferOutput.__init__
HttpInferOutput(name) == [keys |-> {"name"}, name |-> name, parameters |-> EmptyMap]

\* set_parameter of httpclient.InferInput and httpclient.InferOutput (same
\* body): only the key is tested, the value is stored as it is.
http_set_parameter(obj, key, value) ==
    IF key.type # "str"
    THEN [obj |-> obj,
          exc |-> raise_error("only string data type for key is supported in parameters")]
    ELSE [obj |-> [obj EXCEPT !.parameters = Put(@, key.s, value)],
          exc |-> NoExc]

\* set_data_from_numpy that lists the backing buffer as it lies in memory
http_set_data_from_numpy_memory_order(obj, input_tensor) ==
    IF ~isinstance_ndarray(input_tensor) THEN obj ELSE
    [obj EXCEPT !.keys = @ \cup {"datatype", "shape", "data"},
                !.datatype = np_to_triton_dtype(input_tensor.dtype),
                !.shape = input_tensor.shape,
                !.data = input_tensor.mem]

\* val.item() of a numpy scalar: the Python scalar of the same value
item(val) == val

\* httpclient.InferInput.set_data_from_numpy: the dict after the call
http_set_data_from_numpy(obj, input_tensor) ==
    IF ~isinstance_ndarray(input_tensor) THEN obj ELSE
    [obj EXCEPT !.keys = @ \cup {"datatype", "shape", "data"},
                !.datatype = np_to_triton_dtype(input_tensor.dtype),
                !.shape = input_tensor.shape,
                !.data = [i \in 1..Len(flatten(input_tensor)) |->
                             item(flatten(input_tensor)[i])]]

\* --------------------------------------------------- call arguments
\* the `parameters` argument of infer: None or a dict (items: key -> value)
NoneParams == [none |-> TRUE, items |-> <<>>]
Dict(items) == [none |-> FALSE, items |-> items]
\* Python truth value of the `parameters` argument
Truthy(parameters) == ~parameters.none /\ DOMAIN parameters.items # {}
ParamsWellFormed(parameters) ==
    \A k \in DOMAIN parameters.items : WellFormed(k, parameters.items[k])

Args(ver, rid, params, outs) ==
    [model_name |-> "m", model_version |-> ver, request_id |-> rid,
     parameters |-> params, outputs |-> outs]

\* arguments of a call that passes neither request_id nor parameters
DefaultArgs == Args("", PyNone, NoneParams, TRUE)

\* the argument lists the caller passes to infer / async_infer; the inputs
\* are always [the InferInput], outputs is [the InferOutput] or empty
ArgSets ==
    {DefaultArgs,
     Args("1", PyStr(""), Dict(<<>>), FALSE),
     Args("", PyStr("id1"),
          Dict((PyStr("k1") :> PyInt(5)) @@ (PyStr("k2") :> PyStr("x"))), TRUE),
     Args("", PyNone, Dict(PyStr("k1") :> PyBool(TRUE)), FALSE),
     Args("", PyNone, Dict(PyStr("k1") :> PyFloat("1.5")), TRUE),
     Args("", PyNone, Dict(PyInt(7) :> PyInt(5)), TRUE)}

\* ------------------------------------------------------------ state
VARIABLES
    transport, \* the client library in use: "grpc" or "http"
    gIn,       \* the caller's grpcclient.InferInput
    gOut,      \* the caller's grpcclient.InferOutput
    hIn,       \* the caller's httpclient.InferInput
    hOut,      \* the caller's httpclient.InferOutput
    nOps,      \* descriptor operations performed so far
    last,      \* the last descriptor operation and how it ended
    call,      \* call[c]: the state of the c-th infer / async_infer call
    callFuture, \* grpc client's _call_future: the call it was last set by
    written,   \* per descriptor: the key/value of its set_parameter calls
               \* that returned, since its last clear_parameters
    codec,     \* a tensor or a response and what the codec made of it
    client,    \* the client's channel / connection pool: open or closed,
               \* and the number of close() calls that returned
    props      \* the datatype and shape last given to the InferInput in
               \* use, and what a read of a property returned since

vars == <<transport, gIn, gOut, hIn, hOut, nOps, last, call, callFuture,
          written, codec, client, props>>
descVars == <<gIn, gOut, hIn, hOut, nOps, last, written>>

NoOp == [op |-> "none", transport |-> "", target |-> "", key |-> PyNone,
         value |-> PyNone, exc |-> NoExc]
OpRec(op, tr, target, key, value, exc) ==
    [op |-> op, transport |-> tr, target |-> target, key |-> key,
     value |-> value, exc |-> exc]

NoRequest == [built |-> FALSE]
NoResponse == [status_code |-> 0, for_call |-> 0, error |-> ""]
NoRpcError == [details |-> "", code |-> "", debug_error_string |-> ""]
NoResult == [present |-> FALSE, result |-> NoResponse]
\* InferResult.__init__: the object holds the (decoded) response
InferResult(response) == [present |-> TRUE, result |-> response]

IdleCall ==
    [kind |-> "none", pc |-> "idle", args |-> DefaultArgs,
     request |-> NoRequest, body |-> NoRequest, exchanges |-> <<>>,
     response |-> NoResponse, result |-> NoResult, exc |-> NoExc,
     rpc |-> "none", rpc_error |-> NoRpcError,
     registered |-> FALSE, pending |-> FALSE,
     cb_count |-> 0, cb_result |-> NoResult, cb_thread |-> "",
     cb_exc |-> NoExc, after_close |-> FALSE, responses |-> <<>>]

\* what reading a property does: return a value, return None, or raise
NoRead == [prop |-> "", kind |-> "none", value |-> <<>>, exc |-> NoExc]
\* no datatype or shape given, no property read
NoProps == [given |-> {}, datatype |-> "", shape |-> <<>>, read |-> NoRead]

\* the client as constructed: the channel (binary) or the connection pool
\* (JSON) is open
NewClient == [open |-> TRUE, closes |-> 0]

\* nothing given to the codec
NoCodec == [kind |-> "none", stage |-> "none"]

\* the descriptors as constructed, no call made
InitBase ==
    /\ gIn = GrpcInferInput("INPUT0")
    /\ gOut = GrpcInferOutput("OUTPUT0")
    /\ hIn = HttpInferInput("INPUT0")
    /\ hOut = HttpInferOutput("OUTPUT0")
    /\ nOps = 0
    /\ last = NoOp
    /\ call = [c \in Calls |-> IdleCall]
    /\ callFuture = 0
    /\ written = [d \in {"gIn", "gOut", "hIn", "hOut"} |-> EmptyMap]
    /\ client = NewClient
    /\ props = NoProps

Init ==
    /\ transport \in {"grpc", "http"}
    /\ InitBase
    /\ codec = NoCodec

\* ------------------------------------------- descriptor operations
GrpcInputSetParameter ==
    \E key \in ParamKeys, value \in ParamValues :
        LET r == grpc_set_parameter(gIn, key, value)
        IN  /\ transport = "grpc"
            /\ nOps < MaxOps
            /\ gIn' = r.msg
            /\ last' = OpRec("set_parameter", "grpc", "input", key, value, r.exc)
            /\ nOps' = nOps + 1
            /\ written' = IF r.exc = NoExc
                          THEN [written EXCEPT !["gIn"] = Put(@, key.s, value)]
                          ELSE written
            /\ UNCHANGED <<transport, client, props, gOut, hIn, hOut, call, callFuture, codec>>

GrpcOutputSetParameter ==
    \E key \in ParamKeys, value \in ParamValues :
        LET r == grpc_set_parameter(gOut, key, value)
        IN  /\ transport = "grpc"
            /\ nOps < MaxOps
            /\ gOut' = r.msg
            /\ last' = OpRec("set_parameter", "grpc", "output", key, value, r.exc)
            /\ nOps' = nOps + 1
            /\ written' = IF r.exc = NoExc
                          THEN [written EXCEPT !["gOut"] = Put(@, key.s, value)]
                          ELSE written
            /\ UNCHANGED <<transport, client, props, gIn, hIn, hOut, call, callFuture, codec>>

\* grpcclient.InferInput.clear_parameters
GrpcInputClearParameters ==
    /\ transport = "grpc"
    /\ nOps < MaxOps
    /\ gIn' = [gIn EXCEPT !.parameters = EmptyMap]
    /\ last' = OpRec("clear_parameters", "grpc", "input", PyNone, PyNone, NoExc)
    /\ nOps' = nOps + 1
    /\ written' = [written EXCEPT !["gIn"] = EmptyMap]
    /\ UNCHANGED <<transport, client, props, gOut, hIn, hOut, call, callFuture, codec>>

GrpcSetDataFromNumpy ==
    \E input_tensor \in Payloads :
        /\ transport = "grpc"
        /\ nOps < MaxOps
        /\ gIn' = grpc_set_data_from_numpy(gIn, input_tensor)
        /\ last' = OpRec("set_data_from_numpy", "grpc", "input", PyNone, PyNone,
                         set_data_from_numpy_exc(input_tensor))
        /\ nOps' = nOps + 1
        /\ props' = IF ~isinstance_ndarray(input_tensor)
                     THEN [props EXCEPT !.read = NoRead]
                     ELSE [props EXCEPT !.read = NoRead, !.given = {"datatype", "shape"},
                                        !.datatype = np_to_triton_dtype(input_tensor.dtype),
                                        !.shape = input_tensor.shape]
        /\ UNCHANGED <<transport, client, gOut, hIn, hOut, call, callFuture, written, codec>>

\* grpcclient.InferInput.shape setter: ClearField('shape'), then extend
GrpcSetShape ==
    \E value \in ShapeValues :
        /\ transport = "grpc"
        /\ nOps < MaxOps
        /\ gIn' = [gIn EXCEPT !.shape = <<>> \o value]
        /\ last' = OpRec("shape", "grpc", "input", PyNone, PyNone, NoExc)
        /\ nOps' = nOps + 1
        /\ props' = [props EXCEPT !.read = NoRead, !.given = @ \cup {"shape"}, !.shape = value]
        /\ UNCHANGED <<transport, client, gOut, hIn, hOut, call, callFuture, written, codec>>

\* grpcclient.InferInput.datatype setter
GrpcSetDatatype ==
    \E value \in DatatypeValues :
        /\ transport = "grpc"
        /\ nOps < MaxOps
        /\ gIn' = [gIn EXCEPT !.datatype = value]
        /\ last' = OpRec("datatype", "grpc", "input", PyNone, PyNone, NoExc)
        /\ nOps' = nOps + 1
        /\ props' = [props EXCEPT !.read = NoRead, !.given = @ \cup {"datatype"}, !.datatype = value]
        /\ UNCHANGED <<transport, client, gOut, hIn, hOut, call, callFuture, written, codec>>

HttpInputSetParameter ==
    \E key \in ParamKeys, value \in ParamValues :
        LET r == http_set_parameter(hIn, key, value)
        IN  /\ transport = "http"
            /\ nOps < MaxOps
            /\ hIn' = r.obj
            /\ last' = OpRec("set_parameter", "http", "input", key, value, r.exc)
            /\ nOps' = nOps + 1
            /\ written' = IF r.exc = NoExc
                          THEN [written EXCEPT !["hIn"] = Put(@, key.s, value)]
                          ELSE written
            /\ UNCHANGED <<transport, client, props, gIn, gOut, hOut, call, callFuture, codec>>

HttpOutputSetParameter ==
    \E key \in ParamKeys, value \in ParamValues :
        LET r == http_set_parameter(hOut, key, value)
        IN  /\ transport = "http"
            /\ nOps < MaxOps
            /\ hOut' = r.obj
            /\ last' = OpRec("set_parameter", "http", "output", key, value, r.exc)
            /\ nOps' = nOps + 1
            /\ written' = IF r.exc = NoExc
                          THEN [written EXCEPT !["hOut"] = Put(@, key.s, value)]
                          ELSE written
            /\ UNCHANGED <<transport, client, props, gIn, gOut, hIn, call, callFuture, codec>>

\* httpclient.InferInput.clear_parameters: _parameters.clear(), in place
HttpInputClearParameters ==
    /\ transport = "http"
    /\ nOps < MaxOps
    /\ hIn' = [hIn EXCEPT !.parameters = EmptyMap]
    /\ last' = OpRec("clear_parameters", "http", "input", PyNone, PyNone, NoExc)
    /\ nOps' = nOps + 1
    /\ written' = [written EXCEPT !["hIn"] = EmptyMap]
    /\ UNCHANGED <<transport, client, props, gIn, gOut, hOut, call, callFuture, codec>>

HttpSetDataFromNumpy ==
    \E input_tensor \in Payloads :
        /\ transport = "http"
        /\ nOps < MaxOps
        /\ hIn' = http_set_data_from_numpy(hIn, input_tensor)
        /\ last' = OpRec("set_data_from_numpy", "http", "input", PyNone, PyNone,
                         set_data_from_numpy_exc(input_tensor))
        /\ nOps' = nOps + 1
        /\ props' = IF ~isinstance_ndarray(input_tensor)
                     THEN [props EXCEPT !.read = NoRead]
                     ELSE [props EXCEPT !.read = NoRead, !.given = {"datatype", "shape"},
                                        !.datatype = np_to_triton_dtype(input_tensor.dtype),
                                        !.shape = input_tensor.shape]
        /\ UNCHANGED <<transport, client, gIn, gOut, hOut, call, callFuture, written, codec>>

\* httpclient.InferInput.shape setter
HttpSetShape ==
    \E value \in ShapeValues :
        /\ transport = "http"
        /\ nOps < MaxOps
        /\ hIn' = [hIn EXCEPT !.keys = @ \cup {"shape"}, !.shape = value]
        /\ last' = OpRec("shape", "http", "input", PyNone, PyNone, NoExc)
        /\ nOps' = nOps + 1
        /\ props' = [props EXCEPT !.read = NoRead, !.given = @ \cup {"shape"}, !.shape = value]
        /\ UNCHANGED <<transport, client, gIn, gOut, hOut, call, callFuture, written, codec>>

\* httpclient.InferInput.datatype setter
HttpSetDatatype ==
    \E value \in DatatypeValues :
        /\ transport = "http"
        /\ nOps < MaxOps
        /\ hIn' = [hIn EXCEPT !.keys = @ \cup {"datatype"}, !.datatype = value]
        /\ last' = OpRec("datatype", "http", "input", PyNone, PyNone, NoExc)
        /\ nOps' = nOps + 1
        /\ props' = [props EXCEPT !.read = NoRead, !.given = @ \cup {"datatype"}, !.datatype = value]
        /\ UNCHANGED <<transport, client, gIn, gOut, hOut, call, callFuture, written, codec>>

\* the caller's operations on its descriptors
DescriptorOp ==
    \/ GrpcInputSetParameter
    \/ GrpcOutputSetParameter
    \/ GrpcInputClearParameters
    \/ GrpcSetDataFromNumpy
    \/ GrpcSetShape
    \/ GrpcSetDatatype
    \/ HttpInputSetParameter
    \/ HttpOutputSetParameter
    \/ HttpInputClearParameters
    \/ HttpSetDataFromNumpy
    \/ HttpSetShape
    \/ HttpSetDatatype

\* ------------------------------------------ binary transport: calls
\* the names bound in the module namespace of grpcclient.py: its imports, the
\* public names `from tritongrpcclient.utils import *` binds, and its own
\* top-level definitions.  _set_parameter is a method of InferenceServerClient
\* and is not among them.
GrpcModuleNames ==
    {"base64", "np", "grpc", "json", "MessageToJson", "grpc_service_v2_pb2",
     "grpc_service_v2_pb2_grpc", "raise_error", "InferenceServerException",
     "np_to_triton_dtype", "triton_to_np_dtype", "serialize_byte_tensor",
     "deserialize_bytes_tensor", "raise_error_grpc", "InferenceServerClient",
     "InferInput", "InferOutput", "InferResult"}

NameError(name) ==
    [type |-> "NameError", msg |-> name, status |-> "", debug |-> ""]

\* InferenceServerClient._set_parameter(self, request, key, value): the same
\* body as the descriptors' set_parameter, on the request message
InferenceServerClient_set_parameter(request, key, value) ==
    grpc_set_parameter(request, key, value)

get_inference_request_always_id(inputs, outputs, model_name, model_version, request_id, parameters) ==
    LET request ==
            [built |-> TRUE, model_name |-> model_name,
             model_version |-> model_version,
             has_id |-> TRUE,
             id |-> IF request_id # PyNone THEN request_id.s ELSE "",
             inputs |-> inputs, outputs |-> outputs,
             parameters |-> EmptyMap]
    IN  IF Truthy(parameters) /\ "_set_parameter" \notin GrpcModuleNames
        THEN [request |-> NoRequest, exc |-> NameError("_set_parameter")]
        ELSE [request |-> request, exc |-> NoExc]

\* InferenceServerClient._get_inference_request.  inputs and outputs are the
\* descriptors' messages; extend() copies each message into the request.  The
\* loop over a non-empty `parameters` evaluates the bare name _set_parameter.
get_inference_request(inputs, outputs, model_name, model_version, request_id, parameters) ==
    LET request ==
            [built |-> TRUE, model_name |-> model_name,
             model_version |-> model_version,
             has_id |-> request_id # PyNone,
             id |-> IF request_id # PyNone THEN request_id.s ELSE "",
             inputs |-> inputs, outputs |-> outputs,
             parameters |-> EmptyMap]
    IN  IF Truthy(parameters) /\ "_set_parameter" \notin GrpcModuleNames
        THEN [request |-> NoRequest, exc |-> NameError("_set_parameter")]
        ELSE [request |-> request, exc |-> NoExc]

\* the ModelInfer RPC of the service stub
ModelInfer == [method |-> "ModelInfer", uri |-> <<>>]

\* the response the server gives to the RPC of call c
GrpcResponse(c) == [status_code |-> 0, for_call |-> c, error |-> ""]

\* what a stub call on a closed grpc channel raises (not a grpc.RpcError)
ClosedChannelError ==
    [type |-> "ValueError", msg |-> "Cannot invoke RPC on closed channel!",
     status |-> "", debug |-> ""]
\* how an RPC in flight ends when its channel is closed
CancelledError ==
    [details |-> "Channel closed!", code |-> "CANCELLED",
     debug_error_string |-> "dbg:1"]
\* what a request on a closed geventhttpclient connection pool raises
ClosedPoolError ==
    [type |-> "RuntimeError", msg |-> "connection pool closed",
     status |-> "", debug |-> ""]

\* close() that leaves the channel as it is
close_keeps_channel(cl) == cl

\* InferenceServerClient.close (both libraries): close the channel, or the
\* connection pool; closing what is closed already changes nothing
close(cl) == [cl EXCEPT !.open = FALSE]

\* infer, lines 569-571: build the request
GrpcInferBuild(c, args) ==
    /\ transport = "grpc"
    /\ call[c].pc = "idle"
    /\ LET r == get_inference_request(<<gIn>>,
                    IF args.outputs THEN <<gOut>> ELSE <<>>,
                    args.model_name, args.model_version, args.request_id,
                    args.parameters)
       IN  call' = [call EXCEPT ![c] =
                [@ EXCEPT !.kind = "infer", !.args = args,
                          !.after_close = client.closes > 0,
                          !.request = r.request, !.exc = r.exc,
                          !.pc = IF r.exc = NoExc THEN "built" ELSE "done"]]
    /\ UNCHANGED <<transport, client, props, descVars, callFuture, codec>>

\* infer, lines 573-578: the blocking ModelInfer RPC and its outcome
GrpcInferRpc(c) ==
    /\ call[c].kind = "infer"
    /\ transport = "grpc"
    /\ call[c].pc = "built"
    /\ \/ /\ ~client.open
          /\ call' = [call EXCEPT ![c] =
                [@ EXCEPT !.exc = ClosedChannelError, !.pc = "done"]]
       \/ /\ client.open
          /\ call' = [call EXCEPT ![c] =
                [@ EXCEPT !.exchanges = Append(@, ModelInfer),
                          !.rpc = "ok",
                          !.response = GrpcResponse(c),
                          !.result = InferResult(GrpcResponse(c)),
                          !.pc = "done"]]
       \/ /\ client.open
          /\ \E rpc_error \in RpcErrors :
            call' = [call EXCEPT ![c] =
                [@ EXCEPT !.exchanges = Append(@, ModelInfer),
                          !.rpc = "failed",
                          !.rpc_error = rpc_error,
                          !.exc = raise_error_grpc(rpc_error),
                          !.pc = "done"]]
    /\ UNCHANGED <<transport, client, props, descVars, callFuture, codec>>

\* async_infer, lines 633-635: build the request
AsyncInferBuild(c, args) ==
    /\ transport = "grpc"
    /\ call[c].pc = "idle"
    /\ LET r == get_inference_request(<<gIn>>,
                    IF args.outputs THEN <<gOut>> ELSE <<>>,
                    args.model_name, args.model_version, args.request_id,
                    args.parameters)
       IN  call' = [call EXCEPT ![c] =
                [@ EXCEPT !.kind = "async_infer", !.args = args,
                          !.after_close = client.closes > 0,
                          !.request = r.request, !.exc = r.exc,
                          !.pc = IF r.exc = NoExc THEN "built" ELSE "done"]]
    /\ UNCHANGED <<transport, client, props, descVars, callFuture, codec>>

\* async_infer, line 638: start the RPC and keep its future in _call_future
AsyncInferFuture(c) ==
    /\ call[c].kind = "async_infer"
    /\ call[c].pc = "built"
    /\ IF client.open
       THEN /\ call' = [call EXCEPT ![c] =
                    [@ EXCEPT !.exchanges = Append(@, ModelInfer),
                              !.rpc = "inflight", !.pc = "future"]]
            /\ callFuture' = c
       ELSE /\ call' = [call EXCEPT ![c] =
                    [@ EXCEPT !.exc = ClosedChannelError, !.pc = "done"]]
            /\ callFuture' = callFuture
    /\ UNCHANGED <<transport, client, props, descVars, codec>>

\* the transport completes the RPC of call c; the callbacks registered on
\* the future by then are handed to the completion thread
RpcComplete(c) ==
    /\ call[c].rpc = "inflight"
    /\ \/ /\ client.open
          /\ call' = [call EXCEPT ![c] =
                [@ EXCEPT !.rpc = "ok", !.response = GrpcResponse(c),
                          !.pending = @ \/ call[c].registered,
                          !.registered = FALSE]]
       \/ \E rpc_error \in (IF client.open THEN RpcErrors ELSE {CancelledError}) :
            call' = [call EXCEPT ![c] =
                [@ EXCEPT !.rpc = "failed", !.rpc_error = rpc_error,
                          !.pending = @ \/ call[c].registered,
                          !.registered = FALSE]]
    /\ UNCHANGED <<transport, client, props, descVars, callFuture, codec>>

\* wrapped_callback(call_future) of the async_infer call c, lines 626-631:
\* the call record after it ran on `thread`, and the exception it raised
wrapped_callback_last(c, call_future, thread) ==
    IF call[callFuture].rpc = "ok"
    THEN [rec |-> [call[c] EXCEPT
                      !.cb_count = @ + 1,
                      !.cb_result = InferResult(call[callFuture].response),
                      !.cb_thread = thread],
          exc |-> NoExc]
    ELSE [rec |-> call[c],
          exc |-> raise_error_grpc(call[callFuture].rpc_error)]

wrapped_callback(c, call_future, thread) ==
    IF call[call_future].rpc = "ok"
    THEN [rec |-> [call[c] EXCEPT
                      !.cb_count = @ + 1,
                      !.cb_result = InferResult(call[call_future].response),
                      !.cb_thread = thread],
          exc |-> NoExc]
    ELSE [rec |-> call[c],
          exc |-> raise_error_grpc(call[call_future].rpc_error)]

\* async_infer, line 639: add_done_callback(wrapped_callback).  The future
\* appends the callback while the RPC is in flight and calls it at once, on
\* the calling thread, when the RPC is already done; an exception of the
\* callback that is not a grpc.RpcError leaves async_infer.
AsyncInferAddDoneCallback(c) ==
    /\ call[c].kind = "async_infer"
    /\ call[c].pc = "future"
    /\ IF call[c].rpc = "inflight"
       THEN call' = [call EXCEPT ![c] =
                [@ EXCEPT !.registered = TRUE, !.pc = "done"]]
       ELSE LET r == wrapped_callback(c, c, "caller")
            IN  call' = [call EXCEPT ![c] =
                    [r.rec EXCEPT !.exc = r.exc, !.pc = "done"]]
    /\ UNCHANGED <<transport, client, props, descVars, callFuture, codec>>

\* the completion thread of the transport runs the callback of call c; an
\* exception of the callback ends on that thread
CompletionRunCallback(c) ==
    /\ call[c].pending
    /\ LET r == wrapped_callback(c, c, "completion")
       IN  call' = [call EXCEPT ![c] =
                [r.rec EXCEPT !.cb_exc = r.exc, !.pending = FALSE]]
    /\ UNCHANGED <<transport, client, props, descVars, callFuture, codec>>

\* -------------------------------------------- JSON transport: calls
\* httpclient.InferInput._get_tensor / InferOutput._get_tensor: store the
\* _parameters dict under 'parameters' and return the descriptor's own dict
http_get_tensor(obj) == [obj EXCEPT !.keys = @ \cup {"parameters"}]

\* the request URI of infer, lines 309-313
InferUri(model_name, model_version) ==
    IF model_version = ""
    THEN <<"v2/models", model_name, "infer">>
    ELSE <<"v2/models", model_name, "versions", model_version, "infer">>

\* the dict a reference held by the infer_request dict points to
Deref(ref) == IF ref = "hIn" THEN hIn ELSE hOut
\* the dicts a list of references points to, as they are now
HttpTensors(refs) == [i \in DOMAIN refs |-> Deref(refs[i])]

\* one request/response exchange on the transport
Exchange(method, uri) == [method |-> method, uri |-> uri]

TypeError(msg) ==
    [type |-> "TypeError", msg |-> msg, status |-> "", debug |-> ""]

\* rapidjson.dumps(infer_request): the JSON text, by value; a dict key that
\* is not a string is rejected
dumps(infer_request) ==
    IF "parameters" \in infer_request.keys
       /\ \E k \in DOMAIN infer_request.parameters.items : k.type # "str"
    THEN [body |-> NoRequest, exc |-> TypeError("keys must be strings")]
    ELSE [body |-> [infer_request EXCEPT
                       !.inputs = HttpTensors(infer_request.inputs),
                       !.outputs = HttpTensors(infer_request.outputs)],
          exc |-> NoExc]

\* the responses of the server to a POST or GET on the infer URI
HttpResponses(c) ==
    {[status_code |-> 200, for_call |-> c, error |-> ""],
     [status_code |-> 400, for_call |-> 0, error |-> "bad request"]}

\* httpclient.raise_if_error(response)
raise_if_error(response) ==
    IF response.status_code # 200 THEN raise_error(response.error) ELSE NoExc

\* infer, lines 295-306: the infer_request dict; inputs and outputs hold the
\* descriptors' own dicts
HttpInferBuild(c, args) ==
    /\ transport = "http"
    /\ call[c].pc = "idle"
    /\ LET with_id == args.request_id.type = "str" /\ args.request_id.s # ""
           with_params == Truthy(args.parameters)
           infer_request ==
               [built |-> TRUE,
                keys |-> {"inputs"}
                         \cup (IF with_id THEN {"id"} ELSE {})
                         \cup (IF with_params THEN {"parameters"} ELSE {})
                         \cup (IF args.outputs THEN {"outputs"} ELSE {}),
                id |-> IF with_id THEN args.request_id.s ELSE "",
                parameters |-> IF with_params THEN args.parameters ELSE NoneParams,
                inputs |-> <<"hIn">>,
                outputs |-> IF args.outputs THEN <<"hOut">> ELSE <<>>]
       IN  call' = [call EXCEPT ![c] =
                [@ EXCEPT !.kind = "infer", !.args = args,
                          !.after_close = client.closes > 0,
                          !.request = infer_request, !.pc = "built"]]
    /\ hIn' = http_get_tensor(hIn)
    /\ hOut' = IF args.outputs THEN http_get_tensor(hOut) ELSE hOut
    /\ UNCHANGED <<transport, client, props, gIn, gOut, nOps, last, callFuture, written, codec>>

\* infer, line 308: request_body = json.dumps(infer_request)
HttpInferDumps(c) ==
    /\ transport = "http"
    /\ call[c].pc = "built"
    /\ LET r == dumps(call[c].request)
       IN  call' = [call EXCEPT ![c] =
                [@ EXCEPT !.body = r.body, !.exc = r.exc,
                          !.pc = IF r.exc = NoExc THEN "dumped" ELSE "done"]]
    /\ UNCHANGED <<transport, client, props, descVars, callFuture, codec>>

\* infer, lines 314-316: POST the body to the infer URI
HttpInferPost(c) ==
    /\ call[c].pc = "dumped"
    /\ IF ~client.open
       THEN call' = [call EXCEPT ![c] =
                [@ EXCEPT !.exc = ClosedPoolError, !.pc = "done"]]
       ELSE \E response \in HttpResponses(c) :
         call' = [call EXCEPT ![c] =
            [@ EXCEPT !.exchanges = Append(@, Exchange("POST",
                            InferUri(call[c].args.model_name,
                                     call[c].args.model_version))),
                      !.responses = Append(@, response),
                      !.response = response, !.pc = "posted"]]
    /\ UNCHANGED <<transport, client, props, descVars, callFuture, codec>>

\* infer that issues the GET but wraps the body the POST brought back
HttpInferGet_wraps_post(c) ==
    /\ call[c].pc = "posted"
    /\ IF ~client.open
       THEN call' = [call EXCEPT ![c] =
                [@ EXCEPT !.exc = ClosedPoolError, !.pc = "done"]]
       ELSE \E response \in HttpResponses(c) :
         call' = [call EXCEPT ![c] =
            [@ EXCEPT !.exchanges = Append(@, Exchange("GET",
                            InferUri(call[c].args.model_name,
                                     call[c].args.model_version))),
                      !.responses = Append(@, response),
                      !.result = InferResult(call[c].response),
                      !.pc = "done"]]
    /\ UNCHANGED <<transport, client, props, descVars, callFuture, codec>>

\* infer, lines 317-320: GET the infer URI, wrap the body that comes back
HttpInferGet(c) ==
    /\ call[c].pc = "posted"
    /\ IF ~client.open
       THEN call' = [call EXCEPT ![c] =
                [@ EXCEPT !.exc = ClosedPoolError, !.pc = "done"]]
       ELSE \E response \in HttpResponses(c) :
         call' = [call EXCEPT ![c] =
            [@ EXCEPT !.exchanges = Append(@, Exchange("GET",
                            InferUri(call[c].args.model_name,
                                     call[c].args.model_version))),
                      !.responses = Append(@, response),
                      !.response = response,
                      !.result = InferResult(response),
                      !.pc = "done"]]
    /\ UNCHANGED <<transport, client, props, descVars, callFuture, codec>>

\* ------------------------------------------------ decoding results
ValueError(msg) ==
    [type |-> "ValueError", msg |-> msg, status |-> "", debug |-> ""]
UnboundLocalError(name) ==
    [type |-> "UnboundLocalError", msg |-> name, status |-> "", debug |-> ""]
KeyError(key) ==
    [type |-> "KeyError", msg |-> key, status |-> "", debug |-> ""]
StructError(msg) ==
    [type |-> "struct.error", msg |-> msg, status |-> "", debug |-> ""]

NoArray == NdArray("", <<>>, "C", <<>>)
\* what a call of as_numpy does: return an array, return None, or raise
ReturnArray(arr) == [kind |-> "array", array |-> arr, exc |-> NoExc]
ReturnNone == [kind |-> "None", array |-> NoArray, exc |-> NoExc]
Raise(exc) == [kind |-> "raise", array |-> NoArray, exc |-> exc]

\* the value of an element from its bytes, least significant byte first;
\* int16 and int32 are two's complement
ScalarFromBytes(dtype, b) ==
    LET w == itemsize(dtype)
        top == IF dtype # "uint8" /\ b[w] >= 128 THEN b[w] - 256 ELSE b[w]
        low == IF w = 1 THEN 0
               ELSE IF w = 2 THEN b[1]
               ELSE b[1] + b[2] * 256 + b[3] * 65536
        weight == IF w = 1 THEN 1 ELSE IF w = 2 THEN 256 ELSE 16777216
    IN  low + top * weight

\* numpy.frombuffer(raw, dtype): a flat array over the buffer
frombuffer(raw, dtype) ==
    LET w == itemsize(dtype)
        n == Len(raw) \div w
    IN  IF Len(raw) % w # 0
        THEN [exc |-> ValueError("buffer size must be a multiple of element size"),
              arr |-> NoArray]
        ELSE [exc |-> NoExc,
              arr |-> NdArray(dtype, <<n>>, "C",
                        [i \in 1..n |->
                            ScalarFromBytes(dtype, SubSeq(raw, (i - 1) * w + 1, i * w))])]

\* the length a 4-byte little-endian prefix states
PrefixLength(raw) ==
    raw[1] + raw[2] * 256 + raw[3] * 65536 + raw[4] * 16777216

RECURSIVE WellFramed(_)
\* the buffer is a sequence of complete length-prefixed runs
WellFramed(raw) ==
    \/ raw = <<>>
    \/ /\ Len(raw) >= 4
       /\ Len(raw) >= 4 + PrefixLength(raw)
       /\ WellFramed(SubSeq(raw, 5 + PrefixLength(raw), Len(raw)))

RECURSIVE ParseRuns(_)
\* the runs of a well-framed buffer, in order
ParseRuns(raw) ==
    IF raw = <<>> THEN <<>>
    ELSE <<SubSeq(raw, 5, 4 + PrefixLength(raw))>>
         \o ParseRuns(SubSeq(raw, 5 + PrefixLength(raw), Len(raw)))

\* utils.deserialize_bytes_tensor: one element per length-prefixed run,
\* until the buffer is exhausted
deserialize_bytes_tensor(encoded_tensor) ==
    IF ~WellFramed(encoded_tensor)
    THEN [exc |-> StructError("unpack_from requires a longer buffer"),
          arr |-> NoArray]
    ELSE LET strs == ParseRuns(encoded_tensor)
         IN  [exc |-> NoExc, arr |-> NdArray("object", <<Len(strs)>>, "C", strs)]

RECURSIVE StripNul(_)
\* an element of a numpy bytes ('S') array reads without its trailing zeros
StripNul(s) ==
    IF s # <<>> /\ s[Len(s)] = 0 THEN StripNul(SubSeq(s, 1, Len(s) - 1)) ELSE s

\* numpy.array(byte_contents): a flat bytes array of the listed elements
np_array_of_bytes(byte_contents) ==
    NdArray("bytes", <<Len(byte_contents)>>, "C",
            [i \in 1..Len(byte_contents) |-> StripNul(byte_contents[i])])

\* numpy.resize(a, new_shape): the elements of a in row-major order, repeated
\* from the start or cut off so as to fill new_shape; zeros if a is empty
np_resize(a, new_shape) ==
    LET flat == flatten(a)
        n == Len(flat)
        total == Product(new_shape)
    IN  NdArray(a.dtype, new_shape, "C",
                IF total = 0 THEN <<>>
                ELSE IF n = 0 THEN [i \in 1..total |-> 0]
                ELSE [i \in 1..total |-> flat[((i - 1) % n) + 1]])

\* an output tensor of a ModelInferResponse
GrpcOutputTensor(name, datatype, shape, raw_contents, byte_contents) ==
    [name |-> name, datatype |-> datatype, shape |-> shape,
     raw_contents |-> raw_contents, byte_contents |-> byte_contents]

\* grpcclient.InferResult.as_numpy, lines 961-976: the flat array decoded
\* from the output's contents; np_array stays unbound when both are empty
as_numpy_decode(output) ==
    IF Len(output.raw_contents) # 0
    THEN IF output.datatype = "BYTES"
         THEN deserialize_bytes_tensor(output.raw_contents)
         ELSE frombuffer(output.raw_contents, triton_to_np_dtype(output.datatype))
    ELSE IF Len(output.byte_contents) # 0
    THEN [exc |-> NoExc, arr |-> np_array_of_bytes(output.byte_contents)]
    ELSE [exc |-> UnboundLocalError("np_array"), arr |-> NoArray]

\* as_numpy that returns the decoded array without resizing it
as_numpy_output_no_resize(output) ==
    LET d == as_numpy_decode(output)
    IN  IF d.exc # NoExc THEN Raise(d.exc) ELSE ReturnArray(d.arr)

\* grpcclient.InferResult.as_numpy, lines 957-977, for the matching output
as_numpy_output(output) ==
    LET d == as_numpy_decode(output)
    IN  IF d.exc # NoExc THEN Raise(d.exc)
        ELSE ReturnArray(np_resize(d.arr, output.shape))

\* the positions of the outputs called name
Matches(outputs, name) == {i \in 1..Len(outputs) : outputs[i].name = name}
\* the first of them in the order of the response
FirstMatch(outputs, name) ==
    CHOOSE i \in Matches(outputs, name) : \A j \in Matches(outputs, name) : i <= j

\* grpcclient.InferResult.as_numpy(name); result is the ModelInferResponse
grpc_as_numpy(result, name) ==
    IF Matches(result.outputs, name) = {} THEN ReturnNone
    ELSE as_numpy_output(result.outputs[FirstMatch(result.outputs, name)])

\* the names bound at module level in httpclient: its imports, the names
\* of utils and its own definitions
HttpModuleNames ==
    {"HTTPClient", "URL", "json", "np", "raise_error",
     "InferenceServerException", "np_to_triton_dtype", "triton_to_np_dtype",
     "serialize_byte_tensor", "deserialize_bytes_tensor", "raise_if_error",
     "InferenceServerClient", "InferInput", "InferOutput", "InferResult"}

\* an output of a decoded JSON response
HttpOutputTensor(name, datatype, shape, data) ==
    [name |-> name, datatype |-> datatype, shape |-> shape, data |-> data]

\* np.array(output['data'], dtype=...): a flat array of the listed values
np_array(data, dtype) == NdArray(dtype, <<Len(data)>>, "C", data)

\* httpclient.InferResult.as_numpy(name); result is the dict json.loads made
\* of the response body.  The bare name resize is looked up in the module,
\* and what the call returns is dropped.
http_as_numpy(result, name) ==
    IF "outputs" \notin result.keys THEN Raise(KeyError("outputs"))
    ELSE IF Matches(result.outputs, name) = {} THEN ReturnNone
    ELSE LET output == result.outputs[FirstMatch(result.outputs, name)]
             arr == np_array(output.data, triton_to_np_dtype(output.datatype))
         IN  IF "resize" \notin HttpModuleNames
             THEN Raise(NameError("resize"))
             ELSE ReturnArray(arr)

\* --------------------------------------------- the codec on its own
\* the tensors a caller encodes: fixed-width and BYTES, row- and
\* column-major buffers, with and without a zero dimension
CodecArrays ==
    {NdArray("int32", <<1, 4>>, "C", <<1, 2, 3, 4>>),
     NdArray("int32", <<2, 2>>, "F", <<1, 3, 2, 4>>),
     NdArray("int32", <<2>>, "C", <<258, -1>>),
     NdArray("int32", <<1>>, "C", <<-2147483647>>),
     NdArray("int16", <<3>>, "C", <<-2, 513, 0>>),
     NdArray("int16", <<2, 3>>, "F", <<1, -4, 2, 5, 3, -32768>>),
     NdArray("uint8", <<2>>, "C", <<255, 7>>),
     NdArray("int32", <<0>>, "C", <<>>),
     NdArray("int16", <<2, 0>>, "C", <<>>),
     NdArray("object", <<3>>, "C", <<<<>>, <<0, 65, 0>>, <<66>>>>),
     NdArray("object", <<2, 2>>, "F",
             <<<<66>>, <<67, 0, 68>>, <<>>, <<0, 65, 0>>>>),
     NdArray("object", <<1>>, "C", <<<<>>>>),
     NdArray("object", <<0>>, "C", <<>>)}

\* the names a caller asks as_numpy for
OutputNames == {"OUTPUT0", "OUTPUT1", "MISSING"}

\* ModelInferResponse messages a server can send
GrpcResults ==
    {[outputs |-> <<>>],
     [outputs |-> <<GrpcOutputTensor("OUTPUT0", "INT32", <<4>>,
                       ConcatBytes("int32", <<1, 2>>), <<>>)>>],
     [outputs |-> <<GrpcOutputTensor("OUTPUT0", "INT32", <<3>>,
                       ConcatBytes("int32", <<5, 6, 7, 8, 9>>), <<>>)>>],
     [outputs |-> <<GrpcOutputTensor("OUTPUT0", "INT16", <<2, 2>>,
                       ConcatBytes("int16", <<-1, 2, 3>>), <<>>),
                    GrpcOutputTensor("OUTPUT1", "UINT8", <<2>>,
                       <<200, 1, 2>>, <<>>)>>],
     [outputs |-> <<GrpcOutputTensor("OUTPUT0", "INT32", <<1>>,
                       ConcatBytes("int32", <<7>>), <<>>),
                    GrpcOutputTensor("OUTPUT0", "INT32", <<1>>,
                       ConcatBytes("int32", <<9>>), <<>>),
                    GrpcOutputTensor("OUTPUT1", "INT32", <<1>>,
                       ConcatBytes("int32", <<11>>), <<>>)>>],
     [outputs |-> <<GrpcOutputTensor("OUTPUT0", "BYTES", <<4>>,
                       SerializeRuns(<<<<65>>, <<>>>>), <<>>)>>],
     [outputs |-> <<GrpcOutputTensor("OUTPUT0", "BYTES", <<1>>,
                       SerializeRuns(<<<<65>>, <<0, 66>>, <<67>>>>), <<>>),
                    GrpcOutputTensor("OUTPUT1", "BYTES", <<2>>,
                       SerializeRuns(<<<<>>, <<68>>>>), <<>>)>>],
     [outputs |-> <<GrpcOutputTensor("OUTPUT0", "BYTES", <<3>>, <<>>,
                       <<<<65, 0>>, <<66>>>>)>>],
     [outputs |-> <<GrpcOutputTensor("OUTPUT0", "INT32", <<0>>, <<>>, <<>>),
                    GrpcOutputTensor("OUTPUT1", "BYTES", <<0>>,
                       SerializeRuns(<<<<65>>>>), <<>>)>>]}

\* response bodies a server can send, as json.loads decodes them: a result
\* with its outputs, or the error object of a failed request
HttpResults ==
    {[keys |-> {"outputs"}, outputs |-> <<>>, error |-> ""],
     [keys |-> {"error"}, outputs |-> <<>>, error |-> "bad request"],
     [keys |-> {"outputs"}, error |-> "",
      outputs |-> <<HttpOutputTensor("OUTPUT0", "INT32", <<4>>, <<1, 2>>)>>],
     [keys |-> {"outputs"}, error |-> "",
      outputs |-> <<HttpOutputTensor("OUTPUT0", "INT32", <<3>>, <<5, 6, 7, 8, 9>>)>>],
     [keys |-> {"outputs"}, error |-> "",
      outputs |-> <<HttpOutputTensor("OUTPUT0", "INT32", <<1, 4>>, <<1, 2, 3, 4>>),
                    HttpOutputTensor("OUTPUT1", "INT16", <<2>>, <<-1, 2>>)>>],
     [keys |-> {"outputs"}, error |-> "",
      outputs |-> <<HttpOutputTensor("OUTPUT0", "INT32", <<1>>, <<7>>),
                    HttpOutputTensor("OUTPUT0", "INT32", <<1>>, <<9>>),
                    HttpOutputTensor("OUTPUT1", "INT32", <<1>>, <<11>>)>>]}

\* what the codec is given: a tensor to encode, or a decoded response
CodecTensor(t) ==
    [kind |-> "tensor", stage |-> "given", tensor |-> t, message |-> <<>>,
     response |-> <<>>, name |-> "", outcome |-> ReturnNone]
CodecResult(r) ==
    [kind |-> "result", stage |-> "received", tensor |-> NoArray,
     message |-> <<>>, response |-> r, name |-> "", outcome |-> ReturnNone]

InitCodec ==
    /\ transport \in {"grpc", "http"}
    /\ InitBase
    /\ codec \in {CodecTensor(t) : t \in CodecArrays}
                 \cup {CodecResult(r) : r \in IF transport = "grpc"
                                              THEN GrpcResults
                                              ELSE HttpResults}

\* grpcclient: input.set_data_from_numpy(tensor), then input._get_tensor()
GrpcEncode ==
    /\ transport = "grpc"
    /\ codec.kind = "tensor" /\ codec.stage = "given"
    /\ gIn' = grpc_set_data_from_numpy(gIn, codec.tensor)
    /\ codec' = [codec EXCEPT !.stage = "encoded", !.message = gIn']
    /\ props' = [props EXCEPT !.read = NoRead, !.given = {"datatype", "shape"},
                              !.datatype = np_to_triton_dtype(codec.tensor.dtype),
                              !.shape = codec.tensor.shape]
    /\ UNCHANGED <<transport, client, gOut, hIn, hOut, nOps, last, call, callFuture,
                   written>>

\* httpclient: input.set_data_from_numpy(tensor), then input._get_tensor()
HttpEncode ==
    /\ transport = "http"
    /\ codec.kind = "tensor" /\ codec.stage = "given"
    /\ hIn' = http_set_data_from_numpy(hIn, codec.tensor)
    /\ codec' = [codec EXCEPT !.stage = "encoded",
                              !.message = http_get_tensor(hIn')]
    /\ props' = [props EXCEPT !.read = NoRead, !.given = {"datatype", "shape"},
                              !.datatype = np_to_triton_dtype(codec.tensor.dtype),
                              !.shape = codec.tensor.shape]
    /\ UNCHANGED <<transport, client, gIn, gOut, hOut, nOps, last, call,
                   callFuture, written>>

\* a server that sends the input back as OUTPUT0: same datatype, same
\* shape, same bytes
GrpcEcho ==
    /\ transport = "grpc"
    /\ codec.stage = "encoded"
    /\ codec' = [codec EXCEPT
                   !.stage = "received",
                   !.response =
                       [outputs |-> <<GrpcOutputTensor("OUTPUT0",
                                        codec.message.datatype,
                                        codec.message.shape,
                                        codec.message.raw_contents, <<>>)>>]]
    /\ UNCHANGED <<transport, client, props, gIn, gOut, hIn, hOut, nOps, last, call,
                   callFuture, written>>

\* grpcclient: InferResult(response).as_numpy(name)
GrpcAsNumpy ==
    \E name \in OutputNames :
        /\ transport = "grpc"
        /\ codec.stage = "received"
        /\ codec' = [codec EXCEPT !.stage = "decoded", !.name = name,
                                  !.outcome = grpc_as_numpy(codec.response, name)]
        /\ UNCHANGED <<transport, client, props, gIn, gOut, hIn, hOut, nOps, last, call,
                       callFuture, written>>

\* httpclient: InferResult(body).as_numpy(name)
HttpAsNumpy ==
    \E name \in OutputNames :
        /\ transport = "http"
        /\ codec.stage = "received"
        /\ codec' = [codec EXCEPT !.stage = "decoded", !.name = name,
                                  !.outcome = http_as_numpy(codec.response, name)]
        /\ UNCHANGED <<transport, client, props, gIn, gOut, hIn, hOut, nOps, last, call,
                       callFuture, written>>

\* ---------------------------------------------------- specifications
\* descriptor operations the caller performs around one call
MaxMut == 1

CallerMutates == nOps < MaxMut /\ DescriptorOp

\* one call on one client, with the caller's descriptor operations and the
\* transport's completion interleaved
Next ==
    \/ CallerMutates
    \/ \E args \in ArgSets : GrpcInferBuild(1, args)
    \/ GrpcInferRpc(1)
    \/ \E args \in ArgSets : AsyncInferBuild(1, args)
    \/ AsyncInferFuture(1)
    \/ RpcComplete(1)
    \/ AsyncInferAddDoneCallback(1)
    \/ CompletionRunCallback(1)
    \/ \E args \in ArgSets : HttpInferBuild(1, args)
    \/ HttpInferDumps(1)
    \/ HttpInferPost(1)
    \/ HttpInferGet(1)

Spec == Init /\ [][Next]_vars

\* descriptor operations alone
SpecDesc == Init /\ [][DescriptorOp]_vars

\* overlapping async_infer calls on one client
NextAsync ==
    \E c \in Calls :
        \/ AsyncInferBuild(c, DefaultArgs)
        \/ AsyncInferFuture(c)
        \/ RpcComplete(c)
        \/ AsyncInferAddDoneCallback(c)
        \/ CompletionRunCallback(c)

\* each thread that can take a step eventually takes it: the caller of
\* async_infer runs on, the transport completes its RPCs and runs callbacks
SpecAsync ==
    /\ Init
    /\ [][NextAsync]_vars
    /\ \A c \in Calls :
        /\ WF_vars(AsyncInferFuture(c))
        /\ WF_vars(RpcComplete(c))
        /\ WF_vars(AsyncInferAddDoneCallback(c))
        /\ WF_vars(CompletionRunCallback(c))

\* ------------------------------------------- reading the properties
\* a property read that returned value / returned None / raised exc
ReadValue(prop, value) ==
    [prop |-> prop, kind |-> "value", value |-> value, exc |-> NoExc]
ReadNothing(prop) ==
    [prop |-> prop, kind |-> "None", value |-> <<>>, exc |-> NoExc]
ReadRaised(prop, exc) ==
    [prop |-> prop, kind |-> "raise", value |-> <<>>, exc |-> exc]

\* grpcclient.InferInput.datatype / shape getters: return the field
grpc_get_datatype(msg) == ReadValue("datatype", msg.datatype)
grpc_get_shape(msg) == ReadValue("shape", msg.shape)

\* httpclient.InferInput.datatype / shape getters: the body is the bare
\* expression self._input[...], with no return
http_get_datatype(obj) ==
    IF "datatype" \notin obj.keys THEN ReadRaised("datatype", KeyError("datatype"))
    ELSE ReadNothing("datatype")
http_get_shape(obj) ==
    IF "shape" \notin obj.keys THEN ReadRaised("shape", KeyError("shape"))
    ELSE ReadNothing("shape")

GrpcReadDatatype ==
    /\ transport = "grpc"
    /\ props' = [props EXCEPT !.read = grpc_get_datatype(gIn)]
    /\ UNCHANGED <<transport, client, descVars, call, callFuture, codec>>

GrpcReadShape ==
    /\ transport = "grpc"
    /\ props' = [props EXCEPT !.read = grpc_get_shape(gIn)]
    /\ UNCHANGED <<transport, client, descVars, call, callFuture, codec>>

HttpReadDatatype ==
    /\ transport = "http"
    /\ props' = [props EXCEPT !.read = http_get_datatype(hIn)]
    /\ UNCHANGED <<transport, client, descVars, call, callFuture, codec>>

HttpReadShape ==
    /\ transport = "http"
    /\ props' = [props EXCEPT !.read = http_get_shape(hIn)]
    /\ UNCHANGED <<transport, client, descVars, call, callFuture, codec>>

\* assignments to datatype and shape, set_data_from_numpy calls and reads of
\* the two properties, in any order
NextProps ==
    \/ GrpcSetDataFromNumpy
    \/ GrpcSetShape
    \/ GrpcSetDatatype
    \/ HttpSetDataFromNumpy
    \/ HttpSetShape
    \/ HttpSetDatatype
    \/ GrpcReadDatatype
    \/ GrpcReadShape
    \/ HttpReadDatatype
    \/ HttpReadShape

SpecProps == Init /\ [][NextProps]_vars

\* close() calls the caller makes on one client
MaxCloses == 2

\* client.close(), also what leaving a with-block calls (__exit__)
Close ==
    /\ client.closes < MaxCloses
    /\ client' = [close(client) EXCEPT !.closes = @ + 1]
    /\ UNCHANGED <<transport, props, descVars, call, callFuture, codec>>

\* calls on a client that the caller closes at some point
NextClose ==
    \/ Close
    \/ \E c \in Calls :
        \/ GrpcInferBuild(c, DefaultArgs)
        \/ GrpcInferRpc(c)
        \/ AsyncInferBuild(c, DefaultArgs)
        \/ AsyncInferFuture(c)
        \/ RpcComplete(c)
        \/ AsyncInferAddDoneCallback(c)
        \/ CompletionRunCallback(c)
        \/ HttpInferBuild(c, DefaultArgs)
        \/ HttpInferDumps(c)
        \/ HttpInferPost(c)
        \/ HttpInferGet(c)

SpecClose == Init /\ [][NextClose]_vars

\* the codec on its own: a tensor is encoded (after the JSON descriptor got
\* its parameters), and a response, sent back or received, is decoded
NextCodec ==
    \/ codec.kind = "tensor" /\ codec.stage = "given" /\ HttpInputSetParameter
    \/ GrpcEncode
    \/ HttpEncode
    \/ GrpcEcho
    \/ GrpcAsNumpy
    \/ HttpAsNumpy

SpecCodec == InitCodec /\ [][NextCodec]_vars

\* ------------------------------------------------------------ claims
\* the value an InferParameter message decodes to, by its tag
ParamValueOf(param) ==
    CASE param.choice = "int64_param" -> PyInt(param.int64_param)
      [] param.choice = "bool_param" -> PyBool(param.bool_param)
      [] param.choice = "string_param" -> PyStr(param.string_param)
      [] OTHER -> PyNone

\* the key/value pairs the caller supplied as `parameters`
SuppliedPairs(parameters) ==
    {<<k, parameters.items[k]>> : k \in DOMAIN parameters.items}

\* the key/value pairs the request of call c carries
CarriedPairs(c) ==
    IF transport = "grpc"
    THEN {<<PyStr(k), ParamValueOf(call[c].request.parameters[k])>> :
            k \in DOMAIN call[c].request.parameters}
    ELSE IF "parameters" \in call[c].request.keys
         THEN SuppliedPairs(call[c].request.parameters)
         ELSE {}

\* the tensors of the request of call c: the messages of the binary request,
\* the JSON text once it is written, before that the dicts the request holds
RequestTensors(c) ==
    IF transport = "grpc"
    THEN <<call[c].request.inputs, call[c].request.outputs>>
    ELSE IF call[c].body.built
         THEN <<call[c].body.inputs, call[c].body.outputs>>
         ELSE <<HttpTensors(call[c].request.inputs),
                HttpTensors(call[c].request.outputs)>>

\* C1: on both transports set_parameter of a descriptor succeeds exactly when
\* the key is a string and the value is an integer, a boolean or a string;
\* every other call raises the validation error.
C1_SetParameterValidates ==
    last.op = "set_parameter" =>
        IF WellFormed(last.key, last.value)
        THEN last.exc = NoExc
        ELSE last.exc.type = "InferenceServerException"

\* C2: a call whose top-level parameters are well formed builds its request
\* without an error, and the request carries exactly the supplied key/value
\* pairs (none when parameters is absent or empty).
C2_WellFormedParametersCarried ==
    \A c \in Calls :
        (call[c].kind # "none" /\ ParamsWellFormed(call[c].args.parameters)) =>
            /\ call[c].exc.type \notin {"NameError", "TypeError"}
            /\ call[c].request.built
            /\ CarriedPairs(c) = SuppliedPairs(call[c].args.parameters)

\* C3: a call with a malformed top-level parameter issues no exchange on the
\* transport and ends with the validation error.
C3_MalformedParametersRaiseBeforeIO ==
    \A c \in Calls :
        (call[c].kind # "none" /\ ~ParamsWellFormed(call[c].args.parameters)) =>
            /\ call[c].exchanges = <<>>
            /\ call[c].pc = "done" => call[c].exc.type = "InferenceServerException"

\* C4: a synchronous infer() that has returned or raised has issued exactly
\* one exchange on its transport.
C4_OneExchangePerInfer ==
    \A c \in Calls :
        (call[c].kind = "infer" /\ call[c].pc = "done") =>
            Len(call[c].exchanges) = 1

\* C5: a JSON/REST infer() whose response has a status other than 200 raises
\* the uniform error with the message of the error envelope, and returns no
\* InferResult.
C5_HttpFailureRaises ==
    \A c \in Calls :
        (transport = "http" /\ call[c].pc = "done"
            /\ "GET" \in {call[c].exchanges[i].method : i \in DOMAIN call[c].exchanges}
            /\ call[c].response.status_code # 200) =>
            /\ call[c].exc = raise_if_error(call[c].response)
            /\ ~call[c].result.present

\* C6: when the RPC of an async_infer call has failed and the call and the
\* completion thread are through with it, the user callback has been invoked
\* for that call and nothing was raised from async_infer.
C6_AsyncFailureReachesCallback ==
    \A c \in Calls :
        (call[c].kind = "async_infer" /\ call[c].rpc = "failed"
            /\ call[c].pc = "done" /\ ~call[c].pending /\ ~call[c].registered) =>
            /\ call[c].cb_count >= 1
            /\ call[c].exc = NoExc

\* C7: the user callback of an async_infer call never runs on the calling
\* thread inside async_infer, whatever the order of RPC completion and the
\* call's own steps.
C7_CallbackNeverOnCallingThread ==
    \A c \in Calls : call[c].cb_thread # "caller"

C9_SyncTransportFailureRaised ==
    \A c \in Calls :
        (transport = "grpc" /\ call[c].kind = "infer" /\ call[c].rpc = "failed") =>
            /\ call[c].pc = "done"
            /\ call[c].exc.type = "InferenceServerException"
            /\ call[c].exc.msg = call[c].rpc_error.details
            /\ call[c].exc.status = StatusCodeStr(call[c].rpc_error.code)
            /\ call[c].exc.debug = call[c].rpc_error.debug_error_string
            /\ ~call[c].result.present

C9_Witness ==
    \E c \in Calls :
        /\ transport = "grpc"
        /\ call[c].kind = "infer"
        /\ call[c].rpc = "failed"
        /\ call[c].rpc_error.code = "UNAVAILABLE"
        /\ call[c].exchanges = <<ModelInfer>>

\* C10: once a request is built, an operation of the caller on the
\* descriptors leaves the tensors of the request unchanged.
C10_BuiltRequestIsSnapshot ==
    [][\A c \in Calls :
         (call[c].request.built /\ nOps' = nOps + 1) =>
             RequestTensors(c)' = RequestTensors(c)]_vars

\* C11: the request id is in the wire form only when supplied: a binary
\* request built with request_id unset has no id set (a supplied one is set
\* as given), and the JSON request and body have an 'id' key exactly when the
\* caller passed a non-empty request_id.
C11_RequestIdOnlyWhenSupplied ==
    \A c \in Calls :
        call[c].request.built =>
            LET rid == call[c].args.request_id
                nonempty == rid.type = "str" /\ rid.s # ""
            IN  IF transport = "grpc"
                THEN /\ rid = PyNone => ~call[c].request.has_id
                     /\ call[c].request.has_id => call[c].request.id = rid.s
                ELSE /\ ("id" \in call[c].request.keys) <=> nonempty
                     /\ call[c].body.built =>
                          /\ ("id" \in call[c].body.keys) <=> nonempty
                          /\ nonempty => call[c].body.id = rid.s

\* a binary request built by a call that passed no request_id
C11_Witness ==
    \E c \in Calls :
        /\ transport = "grpc"
        /\ call[c].request.built
        /\ call[c].args.request_id = PyNone
        /\ ~call[c].request.has_id

\* the key/value pairs the parameter map of a descriptor holds
DescriptorPairs(d) ==
    CASE d = "gIn" -> {<<k, ParamValueOf(gIn.parameters[k])>> : k \in DOMAIN gIn.parameters}
      [] d = "gOut" -> {<<k, ParamValueOf(gOut.parameters[k])>> : k \in DOMAIN gOut.parameters}
      [] d = "hIn" -> {<<k, hIn.parameters[k]>> : k \in DOMAIN hIn.parameters}
      [] d = "hOut" -> {<<k, hOut.parameters[k]>> : k \in DOMAIN hOut.parameters}

\* C12: after any sequence of set_parameter calls the parameter map of a
\* descriptor has one entry per key that was set, with the kind and value of
\* the last set_parameter call for that key.
C12_LastWriteWins ==
    \A d \in DOMAIN written :
        DescriptorPairs(d) = {<<k, written[d][k]>> : k \in DOMAIN written[d]}

\* as_numpy was asked for a name that no output of the response carries
Miss ==
    /\ codec.stage = "decoded"
    /\ \A i \in 1..Len(codec.response.outputs) :
           codec.response.outputs[i].name # codec.name

\* C13: on both transports, as_numpy(name) for a name that matches no output
\* of the decoded response returns None and never raises, whatever the
\* response contains.
C13_MissReturnsNone == Miss => codec.outcome = ReturnNone

\* as_numpy was asked for a name that exactly one output of the response carries
HitOne ==
    /\ codec.stage = "decoded"
    /\ ("outputs" \in DOMAIN codec.response)
    /\ Cardinality({i \in 1..Len(codec.response.outputs) :
                       codec.response.outputs[i].name = codec.name}) = 1

\* that output
TheOutput ==
    codec.response.outputs[
        CHOOSE i \in 1..Len(codec.response.outputs) :
            codec.response.outputs[i].name = codec.name]

\* the flat elements its contents decode to
DecodedFlat ==
    IF transport = "grpc" THEN as_numpy_decode(TheOutput).arr.mem
    ELSE TheOutput.data

\* its contents decode, to at least one element
Decodes ==
    /\ transport = "grpc" => as_numpy_decode(TheOutput).exc = NoExc
    /\ Len(DecodedFlat) > 0

\* C14: on both transports, as_numpy returns an array of the output's declared
\* shape whose element at row-major position i is the decoded flat element at
\* position i mod n (n the decoded element count, n > 0): too few elements are
\* tiled cyclically, extra elements are cut off, and no error is raised.
C14_ResizeToDeclaredShape ==
    HitOne /\ Decodes =>
        /\ codec.outcome.kind = "array"
        /\ codec.outcome.array.shape = TheOutput.shape
        /\ flatten(codec.outcome.array) =
               [i \in 1..Product(TheOutput.shape) |->
                   DecodedFlat[((i - 1) % Len(DecodedFlat)) + 1]]

\* the positions of the outputs that carry the name as_numpy was asked for
NamedPositions ==
    {i \in 1..Len(codec.response.outputs) :
        codec.response.outputs[i].name = codec.name}

\* as_numpy was asked for a name that several outputs of the response carry
HitSeveral ==
    /\ codec.stage = "decoded"
    /\ Cardinality(NamedPositions) > 1

\* the flat elements the contents of the output at position i decode to
FlatAt(i) ==
    IF transport = "grpc" THEN as_numpy_decode(codec.response.outputs[i]).arr.mem
    ELSE codec.response.outputs[i].data

\* C15: when a decoded response contains several outputs with the same name,
\* as_numpy(name) returns the data of the first of them in the response's
\* output order, and never that of a later one.
C15_FirstDuplicateWins ==
    HitSeveral =>
        LET first == CHOOSE i \in NamedPositions : \A j \in NamedPositions : i <= j
        IN  /\ codec.outcome.kind = "array"
            /\ flatten(codec.outcome.array) = FlatAt(first)
            /\ \A j \in NamedPositions \ {first} :
                   flatten(codec.outcome.array) # FlatAt(j)

\* as_numpy returned an array for a BYTES output of a binary response
BytesArrayReturned ==
    /\ transport = "grpc"
    /\ HitOne
    /\ TheOutput.datatype = "BYTES"
    /\ codec.outcome.kind = "array"

\* the number of length-prefixed runs in the raw contents of the output
RunCount == Len(ParseRuns(TheOutput.raw_contents))

\* C16 as stated: for a BYTES output on the binary transport, the number of
\* elements of the array as_numpy returns equals the number of length-prefixed
\* runs parsed from the raw contents, independently of the declared shape.
C16_BytesCountIsRunCount ==
    BytesArrayReturned => Len(flatten(codec.outcome.array)) = RunCount

\* C16 as amended: every array as_numpy returns for a BYTES output on the
\* binary transport has the declared shape, hence product(shape) elements,
\* whatever the number of runs; with raw contents its elements are the parsed
\* runs, repeated from the start or cut off to fill the shape.
C16_BytesCountIsShapeProduct ==
    BytesArrayReturned =>
        /\ codec.outcome.array.shape = TheOutput.shape
        /\ Len(flatten(codec.outcome.array)) = Product(TheOutput.shape)
        /\ RunCount > 0 =>
               flatten(codec.outcome.array) =
                   [i \in 1..Product(TheOutput.shape) |->
                       ParseRuns(TheOutput.raw_contents)[((i - 1) % RunCount) + 1]]

\* an array of four elements returned for a BYTES output of two runs
C16_Witness ==
    /\ BytesArrayReturned
    /\ RunCount = 2
    /\ Len(flatten(codec.outcome.array)) = 4

\* the bytes set_data_from_numpy made of the tensor came back as OUTPUT0,
\* with the same datatype and shape, and as_numpy("OUTPUT0") was called
RoundTripDone ==
    /\ transport = "grpc"
    /\ codec.kind = "tensor"
    /\ codec.stage = "decoded"
    /\ codec.name = "OUTPUT0"

\* C17: binary-transport numeric round trip: for every fixed-width datatype
\* and every tensor, the bytes produced by set_data_from_numpy, decoded by
\* as_numpy with the same datatype and shape, give back the same values in
\* the same shape.
C17_NumericRoundTrip ==
    RoundTripDone /\ codec.tensor.dtype # "object" =>
        /\ codec.outcome.kind = "array"
        /\ codec.outcome.array.dtype = codec.tensor.dtype
        /\ codec.outcome.array.shape = codec.tensor.shape
        /\ flatten(codec.outcome.array) = flatten(codec.tensor)

\* C18: binary-transport BYTES round trip: for every sequence of byte-strings
\* (a zero-length string and strings with embedded zero bytes included),
\* encoding each element as a 4-byte little-endian length followed by its
\* bytes and then decoding the concatenation recovers the same sequence with
\* the same element boundaries.
C18_BytesRoundTrip ==
    RoundTripDone /\ codec.tensor.dtype = "object" =>
        /\ codec.outcome.kind = "array"
        /\ codec.outcome.array.shape = codec.tensor.shape
        /\ Len(flatten(codec.outcome.array)) = Len(flatten(codec.tensor))
        /\ \A i \in 1..Len(flatten(codec.tensor)) :
               flatten(codec.outcome.array)[i] = flatten(codec.tensor)[i]

\* the indices of an array of that shape (one or two dimensions, from 1)
Indices(shape) ==
    IF Len(shape) = 1 THEN {<<i>> : i \in 1..shape[1]}
    ELSE {<<i, j>> : i \in 1..shape[1], j \in 1..shape[2]}

\* arr[idx]: the element of the array at that index, by the order of its buffer
Element(arr, idx) ==
    IF Len(arr.shape) = 1 THEN arr.mem[idx[1]]
    ELSE IF arr.order = "C" THEN arr.mem[(idx[1] - 1) * arr.shape[2] + idx[2]]
    ELSE arr.mem[(idx[2] - 1) * arr.shape[1] + idx[1]]

\* the row-major position of an index: the last dimension varies fastest
RowMajorPosition(shape, idx) ==
    IF Len(shape) = 1 THEN idx[1] ELSE (idx[1] - 1) * shape[2] + idx[2]

\* the JSON descriptor was filled by set_data_from_numpy and encoded
HttpEncoded ==
    /\ transport = "http"
    /\ codec.kind = "tensor"
    /\ codec.stage = "encoded"

GrpcEncodedNumeric ==
    /\ transport = "grpc"
    /\ codec.kind = "tensor"
    /\ codec.stage = "encoded"
    /\ codec.tensor.dtype # "object"

\* byte j (from 1, least significant first) of the two's complement of v
ByteOf(v, j) ==
    (v \div (CASE j = 1 -> 1 [] j = 2 -> 256 [] j = 3 -> 65536
               [] j = 4 -> 16777216)) % 256

C21_ClosedClientRefusesCalls ==
    /\ \A c \in Calls :
           call[c].after_close =>
               /\ call[c].exchanges = <<>>
               /\ call[c].rpc = "none"
               /\ ~call[c].result.present
               /\ call[c].cb_count = 0
               /\ call[c].pc = "done" => call[c].exc # NoExc
    /\ client.closes > 0 => ~client.open

\* a call made after the client was closed twice has ended in an error
C21_Witness ==
    \E c \in Calls :
        /\ client.closes = 2
        /\ call[c].after_close
        /\ call[c].pc = "done"
        /\ call[c].exc.type \in {"ValueError", "RuntimeError"}

\* the exchanges a JSON infer() with these arguments is to issue, in order
PostThenGet(args) ==
    <<Exchange("POST", InferUri(args.model_name, args.model_version)),
      Exchange("GET", InferUri(args.model_name, args.model_version))>>

Descriptors == <<gIn, gOut, hIn, hOut>>

\* C23: building and dispatching a request is side-effect-free on its
\* descriptors: no step of infer() or async_infer() changes the name,
\* datatype, shape, parameters, payload or set of fields of an input or output
\* descriptor passed to it, on both transports.
C23_CallLeavesDescriptors ==
    [][call' # call => Descriptors' = Descriptors]_vars

\* C24: after any sequence of datatype/shape assignments and
\* set_data_from_numpy calls on an InferInput, reading its datatype and shape
\* properties returns the most recently assigned (or inferred) datatype and
\* shape, the shape replaced rather than appended to, on both transports.
C24_PropertiesReadBack ==
    /\ (props.read.prop = "datatype" /\ "datatype" \in props.given) =>
            /\ props.read.kind = "value"
            /\ props.read.value = props.datatype
    /\ (props.read.prop = "shape" /\ "shape" \in props.given) =>
            /\ props.read.kind = "value"
            /\ props.read.value = props.shape

\* a descriptor operation was performed and raised
OpRaised == nOps' = nOps + 1 /\ last'.exc # NoExc

\* C25: a descriptor operation that raises a validation error leaves the
\* descriptor unchanged: a rejected set_parameter adds no entry to the
\* parameter map and alters none, a set_data_from_numpy rejected for a
\* non-array payload leaves datatype, shape and payload as they were.
C25_RejectedOpLeavesDescriptor ==
    [][OpRaised => Descriptors' = Descriptors]_vars

\* the binary transport's as_numpy was asked for a name that an output of
\* the response carries
GrpcHit ==
    /\ transport = "grpc"
    /\ codec.stage = "decoded"
    /\ NamedPositions # {}

\* C26: on the binary transport, as_numpy(name) for a name that matches an
\* output of the response always returns an array and never raises, also
\* when that output carries no data at all (empty raw contents and empty
\* byte contents).
C26_HitReturnsArray == GrpcHit => codec.outcome.kind = "array"

====
